---- MODULE Spec2Model ----
(***************************************************************************)
(* A model of libosp3 (ODROID Smart Power 3 serial library): the buffered  *)
(* reader osp3_read / osp3_read_line / osp3_flush over the serial read     *)
(* osp3_read_buf, and the log entry codec osp3_log_checksum,               *)
(* osp3_log_checksum_test and osp3_log_parse.                              *)
(*                                                                         *)
(* Bytes are integers 0..255.  A caller's destination buffer is modelled   *)
(* by the sequence of bytes the call has written to it; a C string is      *)
(* modelled by the bytes before its terminating NUL.                       *)
(***************************************************************************)
EXTENDS Integers, Sequences, FiniteSets, TLC

\* ------------------------------------------------------------ constants

OSP3_W_MAX_PACKET_SIZE == 64
OSP3_LOG_PROTOCOL_SIZE == 81
OSP3_LINE_LEN_MAX == 1024

NUL == 0
LF == 10
CR == 13
COMMA == 44

MS_SZ == 10
MV_SZ == 5
MA_SZ == 4
MW_SZ == 5
ONOFF_SZ == 1
INTR_SZ == 2
CS_2COMPL_SZ == 2
CS_XOR_SZ == 2

MS_OFF == 0
MV_IN_OFF == MS_OFF + MS_SZ + 1
MA_IN_OFF == MV_IN_OFF + MV_SZ + 1
MW_IN_OFF == MA_IN_OFF + MA_SZ + 1
ONOFF_IN_OFF == MW_IN_OFF + MW_SZ + 1
MV_0_OFF == ONOFF_IN_OFF + ONOFF_SZ + 1
MA_0_OFF == MV_0_OFF + MV_SZ + 1
MW_0_OFF == MA_0_OFF + MA_SZ + 1
ONOFF_0_OFF == MW_0_OFF + MW_SZ + 1
INTR_0_OFF == ONOFF_0_OFF + ONOFF_SZ + 1
MV_1_OFF == INTR_0_OFF + INTR_SZ + 1
MA_1_OFF == MV_1_OFF + MV_SZ + 1
MW_1_OFF == MA_1_OFF + MA_SZ + 1
ONOFF_1_OFF == MW_1_OFF + MW_SZ + 1
INTR_1_OFF == ONOFF_1_OFF + ONOFF_SZ + 1
CS_2COMPL_OFF == INTR_1_OFF + INTR_SZ + 1
CS_XOR_OFF == CS_2COMPL_OFF + CS_2COMPL_SZ + 1

\* ------------------------------------------------------------ bounds

\* Reader API calls (osp3_read, osp3_read_line, osp3_flush) in one behaviour.
MaxCalls == 3
\* Zero-byte results of read(2) (end of file / hang-up) in one behaviour.
MaxEof == 1
\* The largest count given to osp3-poll with -n.
MaxCount == 2
\* Signals delivered to a utility in one behaviour.
MaxSignals == 1
\* ------------------------------------------------------------ test data

\* src/test/test_osp3_unit.c: the log entries of the unit tests.
test_log1 ==
  <<48, 48, 48, 48, 56, 49, 53, 49, 54, 57, 44, 49, 53, 50, 57, 54, 44, 48, 48, 51, 54, 44, 48, 48, 53, 53, 48, 44, 48, 44, 48, 48, 48, 48, 48, 44, 48, 48, 48, 48, 44, 48, 48, 48, 48, 48, 44, 48, 44, 48, 48, 44, 48, 48, 48, 48, 48, 44, 48, 48, 48, 48, 44, 48, 48, 48, 48, 48, 44, 48, 44, 48, 48, 44, 49, 52, 44, 49, 50, 13, 10>>

test_log2 ==
  <<48, 51, 52, 51, 55, 51, 50, 49, 56, 55, 44, 49, 53, 51, 50, 49, 44, 48, 48, 55, 50, 44, 48, 49, 49, 48, 51, 44, 48, 44, 48, 48, 48, 48, 48, 44, 48, 48, 48, 48, 44, 48, 48, 48, 48, 48, 44, 48, 44, 48, 48, 44, 48, 48, 48, 48, 48, 44, 48, 48, 48, 48, 44, 48, 48, 48, 48, 48, 44, 48, 44, 48, 48, 44, 49, 99, 44, 49, 50, 13, 10>>

test_log3 ==
  <<48, 51, 52, 51, 55, 51, 50, 49, 57, 55, 44, 49, 53, 51, 51, 50, 44, 48, 48, 56, 52, 44, 48, 49, 50, 56, 55, 44, 48, 44, 48, 48, 48, 48, 48, 44, 48, 48, 48, 48, 44, 48, 48, 48, 48, 48, 44, 48, 44, 48, 48, 44, 48, 48, 48, 48, 48, 44, 48, 48, 48, 48, 44, 48, 48, 48, 48, 48, 44, 48, 44, 48, 48, 44, 48, 57, 44, 49, 55, 13, 10>>

test_log4 ==
  <<48, 51, 52, 51, 55, 51, 50, 50, 48, 55, 44, 49, 53, 51, 50, 56, 44, 48, 48, 53, 53, 44, 48, 48, 56, 52, 51, 44, 48, 44, 48, 48, 48, 48, 48, 44, 48, 48, 48, 48, 44, 48, 48, 48, 48, 48, 44, 48, 44, 48, 48, 44, 48, 48, 48, 48, 48, 44, 48, 48, 48, 48, 44, 48, 48, 48, 48, 48, 44, 48, 44, 48, 48, 44, 49, 49, 44, 49, 57, 13, 10>>

test_log1_bad_2s ==
  <<48, 48, 48, 48, 56, 49, 53, 49, 54, 57, 44, 49, 53, 50, 57, 54, 44, 48, 48, 51, 54, 44, 48, 48, 53, 53, 48, 44, 48, 44, 48, 48, 48, 48, 48, 44, 48, 48, 48, 48, 44, 48, 48, 48, 48, 48, 44, 48, 44, 48, 48, 44, 48, 48, 48, 48, 48, 44, 48, 48, 48, 48, 44, 48, 48, 48, 48, 48, 44, 48, 44, 48, 48, 44, 49, 53, 44, 49, 50, 13, 10>>

test_log1_bad_xor ==
  <<48, 48, 48, 48, 56, 49, 53, 49, 54, 57, 44, 49, 53, 50, 57, 54, 44, 48, 48, 51, 54, 44, 48, 48, 53, 53, 48, 44, 48, 44, 48, 48, 48, 48, 48, 44, 48, 48, 48, 48, 44, 48, 48, 48, 48, 48, 44, 48, 44, 48, 48, 44, 48, 48, 48, 48, 48, 44, 48, 48, 48, 48, 44, 48, 48, 48, 48, 48, 44, 48, 44, 48, 48, 44, 49, 52, 44, 49, 51, 13, 10>>

\* ------------------------------------------------------------ state

VARIABLES
  stream,       \* the bytes read(2) on the device will return, in order
  cuts,         \* the offsets in stream at which a burst of received bytes ends
  pos,          \* how many of them read(2) has returned so far
  eofs,         \* zero-byte results of read(2) so far
  rbuf,         \* dev->rbuf: [buf, idx, rem]
  pc,           \* "idle", "read_line_loop" (inside osp3_read_line's while), "abort"
                \* (a failed assert) or "signal" (the process was killed)
  op,           \* the reader operation called last
  len,          \* its len argument
  buf,          \* the bytes it has written to its destination buf
  transferred,  \* *transferred
  ret,          \* the value returned by the call that returned last
  errno,        \* errno
  entry,        \* the state the running/last call was entered in
  fetches,      \* osp3_read_buf calls issued by the running/last call
  req,          \* buflen of the last of them
  failed,       \* how many of them failed (timeout or error)
  drained,      \* bytes the running/last call took from dev->rbuf
  delivered,    \* all bytes written to destinations and reported, in order
  calls,        \* reader API calls so far
  flushed_at,   \* pos at the last osp3_flush (0 before the first)
  nulls,        \* the pointer arguments of the call made last that were NULL
  util,         \* the utility (osp3-poll, osp3-dump) run on the device, if any
  verdict,      \* what osp3_poll made of the line read last
  log,          \* codec input: the string at log
  log_sz,       \* codec input: log_sz
  cs8_2s,       \* codec output / input
  cs8_xor,      \* codec output / input
  log_entry,    \* codec output
  cret          \* the value returned by the codec call that returned last

srcVars == <<stream, cuts, pos, eofs>>
callVars == <<op, len, buf, transferred, ret, errno, entry, fetches, req, failed, drained, delivered, calls, flushed_at, nulls>>
codecVars == <<log, log_sz, cs8_2s, cs8_xor, log_entry, cret>>
vars == <<stream, cuts, pos, eofs, rbuf, pc, op, len, buf, transferred, ret, errno, entry,
          fetches, req, failed, drained, delivered, calls, flushed_at, nulls, verdict,
          log, log_sz, cs8_2s, cs8_xor, log_entry, cret, util>>

\* ------------------------------------------------------------ packet source

\* A line whose third field is not a number ("zz36"), and one that lacks the
\* '\r' and the last checksum digit.
test_log_bad_format == [test_log1 EXCEPT ![18] = 122, ![19] = 122]
test_log_short == SubSeq(test_log1, 1, 78) \o <<LF>>

\* "ab\n\nc"
StreamShort == <<97, 98, LF, LF, 99>>

\* Every way of cutting the first n bytes of a stream into bursts of received
\* bytes, the rest arriving with the last of them.
AllCuts(s, n) == {c \cup {Len(s)} : c \in SUBSET (1..n)}

\* Bursts that end at the given offsets, as far as they lie in the stream.
CutsAt(s, c) == {k \in c : k < Len(s)} \cup {Len(s)}

\* Bursts of n bytes each.
Every(s, n) == {k \in 1..Len(s) : k % n = 0} \cup {Len(s)}

StreamBadCs == test_log1_bad_xor \o test_log2
StreamBadFormat == test_log_bad_format \o test_log_short \o SubSeq(test_log3, 1, 20)

\* The device streams the model reads: a stream and the bursts it arrives in.
Sources ==
  {[stream |-> StreamShort, cuts |-> c] : c \in AllCuts(StreamShort, 3)}
    \cup {[stream |-> StreamBadCs, cuts |-> c] :
            c \in { Every(StreamBadCs, OSP3_W_MAX_PACKET_SIZE),
                    CutsAt(StreamBadCs, {17, 80, 100}) }}
    \cup {[stream |-> StreamBadFormat, cuts |-> c] :
            c \in { Every(StreamBadFormat, 2 * OSP3_LOG_PROTOCOL_SIZE) }}

\* The lengths of the calls made on the device.
ReadLens == {0, 2, OSP3_W_MAX_PACKET_SIZE}
LineLens == {0, 3, OSP3_LOG_PROTOCOL_SIZE - 1, OSP3_LOG_PROTOCOL_SIZE, OSP3_LINE_LEN_MAX}

Min(a, b) == IF a <= b THEN a ELSE b

\* The byte counts one read(2) of at most buflen bytes may return: what is
\* left of the current burst, at most buflen bytes of it; or 0 at end of file.
ChunkLens(buflen) ==
  (IF pos < Len(stream)
   THEN {Min(buflen, (CHOOSE c \in cuts : c > pos /\ \A d \in cuts : d > pos => c <= d) - pos)}
   ELSE {})
    \cup (IF eofs < MaxEof THEN {0} ELSE {})

\* osp3_read_buf: pselect fails (-1, errno of pselect), times out (-1, ETIME),
\* or read(2) returns a byte count (or fails).
osp3_read_buf(buflen) ==
  {[ret |-> -1, errno |-> "ETIME"], [ret |-> -1, errno |-> "EIO"]}
    \cup {[ret |-> k, errno |-> errno] : k \in ChunkLens(buflen)}

\* ------------------------------------------------------------ reader helpers

sz_min(a, b) == IF a <= b THEN a ELSE b

\* &dev->rbuf.buf[idx] .. +n as a sequence.
RbufBytes(b, idx, n) == [i \in 1..n |-> b[idx + i - 1]]

\* The unconsumed content of the lookahead buffer.
Unread == RbufBytes(rbuf.buf, rbuf.idx, rbuf.rem)

\* memcpy(dev->rbuf.buf, src, n)
memcpy(b, src, n) == [i \in DOMAIN b |-> IF i < n THEN src[i + 1] ELSE b[i]]

\* The first index (from 1) of c among the first sz elements of src, or 0.
memchr1(src, c, sz) ==
  LET hits == {i \in 1..sz : src[i] = c}
  IN IF hits = {} THEN 0 ELSE CHOOSE i \in hits : \A j \in hits : i <= j

\* lineccpy with memcpy in place of memccpy: the copy does not stop at '\n'.
lineccpy_all(dst_sz, src) ==
  LET sz == sz_min(dst_sz, Len(src))
      p == memchr1(src, LF, sz)
  IN [written |-> sz, complete |-> IF p = 0 THEN 0 ELSE 1]

\* lineccpy that counts the bytes before the '\n' only.
lineccpy_nolf(dst_sz, src) ==
  LET sz == sz_min(dst_sz, Len(src))
      p == memchr1(src, LF, sz)
  IN [written |-> IF p = 0 THEN sz ELSE p - 1, complete |-> IF p = 0 THEN 0 ELSE 1]

\* lineccpy: copies src to dst up to and including the first '\n', at most
\* min(dst_sz, src_sz) bytes.
lineccpy(dst_sz, src) ==
  LET sz == sz_min(dst_sz, Len(src))
      p == memchr1(src, LF, sz)
  IN [written |-> IF p = 0 THEN sz ELSE p, complete |-> IF p = 0 THEN 0 ELSE 1]

\* idx advanced without the reset to 0 when the buffer runs empty.
next_idx_advance(idx, rem, n) == idx + n

\* dev->rbuf.idx = dev->rbuf.rem > 0 ? dev->rbuf.idx + n : 0
next_idx(idx, rem, n) == IF rem > 0 THEN idx + n ELSE 0

\* rem left as it was.
rem_after_keep(rem, n) == rem

\* dev->rbuf.rem -= n
rem_after(rem, n) == rem - n

\* The head of the packet kept instead of its tail.
packet_tail_first(packet, line_seg_written, n) == SubSeq(packet, 1, n)

\* &packet[line_seg_written] .. +n: what osp3_read_line keeps of a packet.
packet_tail(packet, line_seg_written, n) == SubSeq(packet, line_seg_written + 1, line_seg_written + n)

\* The fetch sized for the whole destination.
read_fetch_len_full(l, t) == l

\* osp3_read: the size of its packet fetch.
read_fetch_len(l, t) == l - t

\* packet_sz with one byte of the destination held back.
packet_size_reserve(l, t) == IF l - t <= 1 THEN 0 ELSE sz_min(OSP3_W_MAX_PACKET_SIZE, l - t - 1)

\* packet_sz not limited to the room left in the destination.
packet_size_packet(l, t) == OSP3_W_MAX_PACKET_SIZE

\* osp3_read_line: packet_sz
packet_size(l, t) == sz_min(OSP3_W_MAX_PACKET_SIZE, l - t)

\* The rest of the packet dropped.
leftover_none(packet_written, line_seg_written) == 0

\* osp3_read_line: dev->rbuf.rem after a packet
leftover(packet_written, line_seg_written) == packet_written - line_seg_written

\* What a call finds when it is entered.
EntryState == [rem |-> rbuf.rem, idx |-> rbuf.idx, pos |-> pos, unread |-> Unread,
               op |-> op, verdict |-> verdict, delivered |-> Len(delivered)]

\* ------------------------------------------------------------ reader

\* A device just opened on a source: osp3_open callocs the device, so the
\* lookahead buffer is zeroed.
ReaderInit(src) ==
  /\ stream = src.stream
  /\ cuts = src.cuts
  /\ pos = 0
  /\ eofs = 0
  /\ rbuf = [buf |-> [i \in 0..(OSP3_W_MAX_PACKET_SIZE - 1) |-> 0], idx |-> 0, rem |-> 0]
  /\ pc = "idle"
  /\ op = "open"
  /\ len = 0
  /\ buf = <<>>
  /\ transferred = 0
  /\ ret = 0
  /\ errno = "0"
  /\ entry = [rem |-> 0, idx |-> 0, pos |-> 0, unread |-> <<>>,
              op |-> "open", verdict |-> "none", delivered |-> 0]
  /\ fetches = 0
  /\ req = 0
  /\ failed = 0
  /\ drained = 0
  /\ delivered = <<>>
  /\ calls = 0
  /\ nulls = {}
  /\ flushed_at = 0
  /\ verdict = "none"

\* No utility runs: the library is called directly.
NoUtil == [mode |-> "none", running |-> 1, count |-> 0, pc |-> "none", tmp |-> 0,
           ncall |-> 0, ret |-> 0, sigs |-> 0, sig_pc |-> "none", sig_calls |-> 0]

\* An osp3_log_entry nobody has written yet; ms is kept as two limbs.
NoLogEntry == [i \in 1..17 |-> IF i = 1 THEN <<0, 0>> ELSE 0]

Init ==
  /\ \E src \in Sources : ReaderInit(src)
  /\ log = <<>>
  /\ log_sz = 0
  /\ cs8_2s = 0
  /\ cs8_xor = 0
  /\ log_entry = NoLogEntry
  /\ cret = 0
  /\ util = NoUtil

\* osp3_read(dev, buf, l, transferred, timeout_ms)
osp3_read(l) ==
  /\ pc = "idle"
  /\ calls < MaxCalls
  /\ LET d == sz_min(rbuf.rem, l)
         rem1 == rem_after(rbuf.rem, d)
         got == RbufBytes(rbuf.buf, rbuf.idx, d)
     IN /\ rbuf' = [rbuf EXCEPT !.rem = rem1, !.idx = next_idx(rbuf.idx, rem1, d)]
        /\ drained' = d
        /\ IF d < l
           THEN \E r \in osp3_read_buf(read_fetch_len(l, d)) :
                  LET n == IF r.ret < 0 THEN 0 ELSE r.ret
                      data == SubSeq(stream, pos + 1, pos + n)
                  IN /\ pos' = pos + n
                     /\ eofs' = IF r.ret = 0 THEN eofs + 1 ELSE eofs
                     /\ fetches' = 1
                     /\ failed' = IF r.ret < 0 THEN 1 ELSE 0
                     /\ req' = read_fetch_len(l, d)
                     /\ buf' = got \o data
                     /\ transferred' = d + n
                     /\ delivered' = delivered \o got \o data
                     /\ ret' = IF r.ret < 0 THEN -1 ELSE 0
                     /\ errno' = r.errno
           ELSE /\ UNCHANGED <<pos, eofs, errno>>
                /\ fetches' = 0
                /\ failed' = 0
                /\ req' = 0
                /\ buf' = got
                /\ transferred' = d
                /\ delivered' = delivered \o got
                /\ ret' = 0
  /\ op' = "read"
  /\ len' = l
  /\ entry' = EntryState
  /\ calls' = calls + 1
  /\ nulls' = {}
  /\ verdict' = "none"
  /\ pc' = IF rbuf.rem >= sz_min(rbuf.rem, l) THEN "idle" ELSE "abort"  \* assert(dev->rbuf.rem >= *transferred)
  /\ UNCHANGED <<stream, cuts, flushed_at, codecVars, util>>

\* osp3_read_line(dev, buf, l, transferred, timeout_ms): up to the while loop.
osp3_read_line(l) ==
  /\ pc = "idle"
  /\ calls < MaxCalls
  /\ LET c == lineccpy(l, Unread)
         rem1 == rem_after(rbuf.rem, c.written)
         got == RbufBytes(rbuf.buf, rbuf.idx, c.written)
     IN /\ buf' = got
        /\ transferred' = c.written
        /\ delivered' = delivered \o got
        /\ drained' = c.written
        /\ rbuf' = [rbuf EXCEPT !.rem = rem1, !.idx = next_idx(rbuf.idx, rem1, c.written)]
        /\ IF rbuf.rem < c.written
           THEN pc' = "abort" /\ ret' = ret  \* assert(dev->rbuf.rem >= line_seg_written)
           ELSE IF c.complete = 1
           THEN pc' = "idle" /\ ret' = 0
           ELSE pc' = "read_line_loop" /\ ret' = ret
  /\ op' = "read_line"
  /\ len' = l
  /\ entry' = EntryState
  /\ fetches' = 0
  /\ failed' = 0
  /\ req' = 0
  /\ calls' = calls + 1
  /\ nulls' = {}
  /\ verdict' = "none"
  /\ UNCHANGED <<srcVars, errno, flushed_at, codecVars, util>>

\* osp3_read_line: one iteration of while (!complete).
osp3_read_line_loop ==
  /\ pc = "read_line_loop"
  /\ LET packet_sz == packet_size(len, transferred)
     IN IF len < transferred
        THEN \* assert(len >= *transferred)
             /\ pc' = "abort"
             /\ UNCHANGED <<srcVars, rbuf, buf, transferred, delivered, ret, errno, fetches, req, failed>>
        ELSE IF packet_sz = 0
        THEN /\ errno' = "ENOBUFS"
             /\ ret' = -1
             /\ pc' = "idle"
             /\ UNCHANGED <<srcVars, rbuf, buf, transferred, delivered, fetches, req, failed>>
        ELSE \E r \in osp3_read_buf(packet_sz) :
               /\ fetches' = fetches + 1
               /\ req' = packet_sz
               /\ failed' = IF r.ret < 0 THEN failed + 1 ELSE failed
               /\ IF r.ret < 0
                  THEN /\ ret' = -1
                       /\ errno' = r.errno
                       /\ pc' = "idle"
                       /\ UNCHANGED <<srcVars, rbuf, buf, transferred, delivered>>
                  ELSE LET packet == SubSeq(stream, pos + 1, pos + r.ret)
                           packet_written == r.ret
                           c == lineccpy(len - transferred, packet)
                           rem1 == leftover(packet_written, c.written)
                           asserts == /\ rbuf.idx = 0
                                      /\ packet_written >= c.written
                                      /\ (rem1 > 0 => c.complete = 1)
                       IN /\ pos' = pos + r.ret
                          /\ eofs' = IF r.ret = 0 THEN eofs + 1 ELSE eofs
                          /\ UNCHANGED <<stream, cuts, errno>>
                          /\ buf' = buf \o SubSeq(packet, 1, c.written)
                          /\ transferred' = transferred + c.written
                          /\ delivered' = delivered \o SubSeq(packet, 1, c.written)
                          /\ IF asserts
                             THEN /\ rbuf' = [rbuf EXCEPT
                                       !.rem = rem1,
                                       !.buf = memcpy(rbuf.buf, packet_tail(packet, c.written, rem1), rem1)]
                                  /\ IF c.complete = 1
                                     THEN pc' = "idle" /\ ret' = 0
                                     ELSE pc' = "read_line_loop" /\ ret' = ret
                             ELSE /\ pc' = "abort"
                                  /\ UNCHANGED <<rbuf, ret>>
  /\ UNCHANGED <<op, len, entry, drained, calls, flushed_at, nulls, verdict, codecVars, util>>

\* osp3_flush that only calls tcflush.
osp3_flush_keep ==
  /\ pc = "idle"
  /\ calls < MaxCalls
  /\ \E r \in {0, -1} :
       /\ ret' = r
       /\ errno' = IF r = 0 THEN errno ELSE "EIO"
  /\ op' = "flush"
  /\ entry' = EntryState
  /\ calls' = calls + 1
  /\ nulls' = {}
  /\ verdict' = "none"
  /\ fetches' = 0
  /\ req' = 0
  /\ failed' = 0
  /\ drained' = 0
  /\ flushed_at' = pos
  /\ UNCHANGED <<srcVars, rbuf, pc, len, buf, transferred, delivered, codecVars, util>>

\* osp3_flush(dev): tcflush succeeds or fails.
osp3_flush ==
  /\ pc = "idle"
  /\ calls < MaxCalls
  /\ rbuf' = [rbuf EXCEPT !.idx = 0, !.rem = 0]
  /\ \E r \in {0, -1} :
       /\ ret' = r
       /\ errno' = IF r = 0 THEN errno ELSE "EIO"
  /\ op' = "flush"
  /\ entry' = EntryState
  /\ calls' = calls + 1
  /\ nulls' = {}
  /\ verdict' = "none"
  /\ fetches' = 0
  /\ req' = 0
  /\ failed' = 0
  /\ drained' = 0
  /\ flushed_at' = pos
  /\ UNCHANGED <<srcVars, pc, len, buf, transferred, delivered, codecVars, util>>


\* ------------------------------------------------------------ codec

\* The element of a one-element set.
Only(S) == CHOOSE x \in S : TRUE

\* log[i] for a buffer given as the sequence of its bytes.
At(l, i) == l[i + 1]

\* 8-bit arithmetic of uint8_t.
RECURSIVE XorBits(_, _, _)
XorBits(a, b, n) ==
  IF n = 0 THEN 0 ELSE (((a % 2) + (b % 2)) % 2) + 2 * XorBits(a \div 2, b \div 2, n - 1)

xor8(a, b) == XorBits(a, b, 8)
add8(a, b) == (a + b) % 256
not8(a) == 255 - a

\* osp3_log_checksum_compute: for (i = 0; i < CS_2COMPL_OFF; i++) ...
RECURSIVE checksum_loop(_, _, _, _, _)
checksum_loop(l, i, n, s, x) ==
  IF i < n /\ s \in 0..255 /\ x \in 0..255
  THEN checksum_loop(l, i + 1, n, add8(s, At(l, i)), xor8(x, At(l, i)))
  ELSE [cs8_2s |-> s, cs8_xor |-> x]

\* A loop that stops one byte early.
checksum_end_short == CS_2COMPL_OFF - 1

\* The loop bound of osp3_log_checksum_compute.
checksum_end == CS_2COMPL_OFF

osp3_log_checksum_compute(l) ==
  LET r == checksum_loop(l, 0, checksum_end, 0, 0)
  IN [cs8_2s |-> add8(not8(r.cs8_2s), 1), cs8_xor |-> r.cs8_xor]

IsSpace(c) == c \in {32, 9, 10, 11, 12, 13}

DigitVal(c, base) ==
  IF c >= 48 /\ c <= 57 THEN c - 48
  ELSE IF base = 16 /\ c >= 97 /\ c <= 102 THEN c - 87
  ELSE IF base = 16 /\ c >= 65 /\ c <= 70 THEN c - 55
  ELSE -1

\* strlen(l)
RECURSIVE strlen_from(_, _)
strlen_from(l, i) == IF i > Len(l) \/ l[i] = NUL THEN i - 1 ELSE strlen_from(l, i + 1)

\* The string at l: its bytes before the first NUL.
CString(l) == SubSeq(l, 1, strlen_from(l, 1))

RECURSIVE SkipSpace(_, _)
SkipSpace(s, i) == IF i <= Len(s) /\ IsSpace(s[i]) THEN SkipSpace(s, i + 1) ELSE i

\* Digits of the base from s[i] on, at most w of them (w < 0: no limit).
RECURSIVE ScanDigits(_, _, _, _, _)
ScanDigits(s, i, w, base, digs) ==
  IF w # 0 /\ i <= Len(s) /\ DigitVal(s[i], base) >= 0
  THEN ScanDigits(s, i + 1, IF w > 0 THEN w - 1 ELSE w, base, Append(digs, DigitVal(s[i], base)))
  ELSE [next |-> i, digs |-> digs]

\* The number a digit sequence denotes, modulo m (0: not reduced).
RECURSIVE DigitsVal(_, _, _)
DigitsVal(digs, base, m) ==
  IF digs = <<>> THEN 0
  ELSE LET v == DigitsVal(SubSeq(digs, 1, Len(digs) - 1), base, m) * base + digs[Len(digs)]
       IN IF m = 0 THEN v ELSE v % m

UINT8 == 256
LIMB == 5

\* The value a conversion stores for the digits read, by destination type.
\* uint8_t: the number modulo 256.  unsigned int (at most 5 digits here): the
\* number, and -n for a negated n (which the machine stores as 2^32 - n).
\* unsigned long (at most 10 digits here): the pair of the number of the
\* leading digits and the number of the last LIMB digits, both negated for a
\* negated number.
Stored(digs, base, type, neg) ==
  IF type = "uint8"
  THEN LET v == DigitsVal(digs, base, UINT8) IN IF neg THEN (UINT8 - v) % UINT8 ELSE v
  ELSE IF type = "uint"
  THEN LET v == DigitsVal(digs, base, 0) IN IF neg THEN 0 - v ELSE v
  ELSE LET n == Len(digs)
           hi == DigitsVal(SubSeq(digs, 1, IF n > LIMB THEN n - LIMB ELSE 0), base, 0)
           lo == DigitsVal(SubSeq(digs, (IF n > LIMB THEN n - LIMB ELSE 0) + 1, n), base, 0)
       IN IF neg THEN <<0 - hi, 0 - lo>> ELSE <<hi, lo>>

\* strtoul / a %u or %x conversion on s from index i: white space, an optional
\* sign, then digits, the sign counting in the field width w (0: no width).
\* Strings with a "0x" prefix are not among the inputs of the model.
ScanUInt(s, i0, w, base, type) ==
  LET i == SkipSpace(s, i0)
      signed == i <= Len(s) /\ s[i] \in {43, 45}
      neg == i <= Len(s) /\ s[i] = 45
      i1 == IF signed THEN i + 1 ELSE i
      w0 == IF w = 0 THEN -1 ELSE w
      w1 == IF signed /\ w0 > 0 THEN w0 - 1 ELSE w0
      d == ScanDigits(s, i1, w1, base, <<>>)
  IN IF d.digs = <<>>
     THEN [ok |-> FALSE, eof |-> i1 > Len(s), next |-> i1, val |-> 0]
     ELSE [ok |-> TRUE, eof |-> FALSE, next |-> d.next, val |-> Stored(d.digs, base, type, neg)]

\* A format that reads the interrupt masks as decimal numbers.
ScanFormat_decimal ==
  << [w |-> 10, base |-> 10, type |-> "ulong"],
     [w |-> 5, base |-> 10, type |-> "uint"], [w |-> 4, base |-> 10, type |-> "uint"],
     [w |-> 5, base |-> 10, type |-> "uint"], [w |-> 1, base |-> 10, type |-> "uint"],
     [w |-> 5, base |-> 10, type |-> "uint"], [w |-> 4, base |-> 10, type |-> "uint"],
     [w |-> 5, base |-> 10, type |-> "uint"], [w |-> 1, base |-> 10, type |-> "uint"],
     [w |-> 2, base |-> 10, type |-> "uint"],
     [w |-> 5, base |-> 10, type |-> "uint"], [w |-> 4, base |-> 10, type |-> "uint"],
     [w |-> 5, base |-> 10, type |-> "uint"], [w |-> 1, base |-> 10, type |-> "uint"],
     [w |-> 2, base |-> 10, type |-> "uint"],
     [w |-> 0, base |-> 16, type |-> "uint8"], [w |-> 0, base |-> 16, type |-> "uint8"] >>

\* The conversions of osp3_log_parse's format, in order; between two of them
\* the format has a ','.
ScanFormat ==
  << [w |-> 10, base |-> 10, type |-> "ulong"],
     [w |-> 5, base |-> 10, type |-> "uint"], [w |-> 4, base |-> 10, type |-> "uint"],
     [w |-> 5, base |-> 10, type |-> "uint"], [w |-> 1, base |-> 10, type |-> "uint"],
     [w |-> 5, base |-> 10, type |-> "uint"], [w |-> 4, base |-> 10, type |-> "uint"],
     [w |-> 5, base |-> 10, type |-> "uint"], [w |-> 1, base |-> 10, type |-> "uint"],
     [w |-> 2, base |-> 16, type |-> "uint"],
     [w |-> 5, base |-> 10, type |-> "uint"], [w |-> 4, base |-> 10, type |-> "uint"],
     [w |-> 5, base |-> 10, type |-> "uint"], [w |-> 1, base |-> 10, type |-> "uint"],
     [w |-> 2, base |-> 16, type |-> "uint"],
     [w |-> 0, base |-> 16, type |-> "uint8"], [w |-> 0, base |-> 16, type |-> "uint8"] >>

\* sscanf(s, format, ...): matched is the number of conversions stored, or -1
\* for EOF (the input ended before the first conversion); vals are the values
\* stored, in order.
RECURSIVE sscanf_from(_, _, _, _)
sscanf_from(s, i, k, vals) ==
  IF k > Len(ScanFormat)
  THEN [matched |-> Len(vals), vals |-> vals]
  ELSE IF k > 1 /\ (i > Len(s) \/ s[i] # COMMA)
  THEN [matched |-> Len(vals), vals |-> vals]
  ELSE LET f == ScanFormat[k]
           r == ScanUInt(s, IF k > 1 THEN i + 1 ELSE i, f.w, f.base, f.type)
       IN IF r.ok
          THEN sscanf_from(s, r.next, k + 1, Append(vals, r.val))
          ELSE [matched |-> IF k = 1 /\ r.eof THEN -1 ELSE Len(vals), vals |-> vals]

sscanf(l) == sscanf_from(CString(l), 1, 1, <<>>)

\* osp3_log_checksum_test that is content with one matching checksum.
osp3_log_checksum_test_either(l, sz, a, x) ==
  IF sz < OSP3_LOG_PROTOCOL_SIZE
  THEN [ret |-> -1, errno |-> "EINVAL"]
  ELSE LET cs8_2s_log == ScanUInt(CString(<<At(l, CS_2COMPL_OFF), At(l, CS_2COMPL_OFF + 1), NUL>>), 1, 0, 16, "uint8").val
           cs8_xor_log == ScanUInt(CString(<<At(l, CS_XOR_OFF), At(l, CS_XOR_OFF + 1), NUL>>), 1, 0, 16, "uint8").val
       IN [ret |-> IF a = cs8_2s_log \/ x = cs8_xor_log THEN 0 ELSE 1, errno |-> errno]

\* osp3_log_checksum_test(log, log_sz, cs8_2s, cs8_xor)
osp3_log_checksum_test(l, sz, a, x) ==
  IF sz < OSP3_LOG_PROTOCOL_SIZE
  THEN [ret |-> -1, errno |-> "EINVAL"]
  ELSE LET cs8_2s_log == ScanUInt(CString(<<At(l, CS_2COMPL_OFF), At(l, CS_2COMPL_OFF + 1), NUL>>), 1, 0, 16, "uint8").val
           cs8_xor_log == ScanUInt(CString(<<At(l, CS_XOR_OFF), At(l, CS_XOR_OFF + 1), NUL>>), 1, 0, 16, "uint8").val
       IN [ret |-> IF a = cs8_2s_log /\ x = cs8_xor_log THEN 0 ELSE 1, errno |-> errno]

\* osp3_log_checksum(log, log_sz, &cs8_2s, &cs8_xor): old2s, oldxor are what
\* the outputs hold before the call.
osp3_log_checksum(l, sz, old2s, oldxor) ==
  IF sz < OSP3_LOG_PROTOCOL_SIZE
  THEN [ret |-> -1, errno |-> "EINVAL", cs8_2s |-> old2s, cs8_xor |-> oldxor]
  ELSE Only({ LET t == osp3_log_checksum_test(l, sz, c.cs8_2s, c.cs8_xor)
              IN [ret |-> t.ret, errno |-> t.errno, cs8_2s |-> c.cs8_2s, cs8_xor |-> c.cs8_xor]
              : c \in {osp3_log_checksum_compute(l)} })

\* osp3_log_parse that also asks for the checksums to match.
osp3_log_parse_verified(l, sz, old) ==
  IF sz < OSP3_LOG_PROTOCOL_SIZE
  THEN [ret |-> -1, errno |-> "EINVAL", log_entry |-> old]
  ELSE Only({ LET e == [i \in 1..Len(old) |-> IF i <= Len(m.vals) THEN m.vals[i] ELSE old[i]]
                  c == osp3_log_checksum(l, sz, 0, 0)
              IN IF m.matched = -1
                 THEN [ret |-> -1, errno |-> IF errno = "0" THEN "EILSEQ" ELSE errno, log_entry |-> e]
                 ELSE [ret |-> IF m.matched = 17 /\ c.ret = 0 THEN 0 ELSE 1, errno |-> errno, log_entry |-> e]
              : m \in {sscanf(l)} })

\* osp3_log_parse that takes any log_sz.
osp3_log_parse_any_size(l, sz, old) ==
  Only({ LET e == [i \in 1..Len(old) |-> IF i <= Len(m.vals) THEN m.vals[i] ELSE old[i]]
         IN IF m.matched = -1
            THEN [ret |-> -1, errno |-> IF errno = "0" THEN "EILSEQ" ELSE errno, log_entry |-> e]
            ELSE [ret |-> IF m.matched = 17 THEN 0 ELSE 1, errno |-> errno, log_entry |-> e]
         : m \in {sscanf(l)} })

\* osp3_log_parse(log, log_sz, &log_entry): old is what *log_entry holds
\* before the call; sscanf stores the converted fields only.
osp3_log_parse(l, sz, old) ==
  IF sz < OSP3_LOG_PROTOCOL_SIZE
  THEN [ret |-> -1, errno |-> "EINVAL", log_entry |-> old]
  ELSE Only({ LET e == [i \in 1..Len(old) |-> IF i <= Len(m.vals) THEN m.vals[i] ELSE old[i]]
              IN IF m.matched = -1
                 THEN [ret |-> -1, errno |-> IF errno = "0" THEN "EILSEQ" ELSE errno, log_entry |-> e]
                 ELSE [ret |-> IF m.matched = 17 THEN 0 ELSE 1, errno |-> errno, log_entry |-> e]
              : m \in {sscanf(l)} })

\* osp3_poll's line buffer after a read: the bytes read, then NULs.
PollLine == buf \o [i \in 1..(OSP3_LOG_PROTOCOL_SIZE + 1) |-> NUL]

\* osp3_poll: what the loop body does with a line that osp3_read_line
\* returned (parsing and checksum verification enabled).
osp3_poll_line ==
  /\ pc = "idle"
  /\ op = "read_line"
  /\ ret = 0
  /\ verdict = "none"
  /\ IF transferred < OSP3_LOG_PROTOCOL_SIZE - 1
     THEN verdict' = "too short" /\ UNCHANGED <<log_entry, cs8_2s, cs8_xor, cret, errno>>
     ELSE IF transferred > OSP3_LOG_PROTOCOL_SIZE
     THEN verdict' = "too long" /\ UNCHANGED <<log_entry, cs8_2s, cs8_xor, cret, errno>>
     ELSE \E p \in {osp3_log_parse(PollLine, OSP3_LOG_PROTOCOL_SIZE, log_entry)},
             c \in {osp3_log_checksum(PollLine, OSP3_LOG_PROTOCOL_SIZE, cs8_2s, cs8_xor)} :
             /\ log_entry' = p.log_entry
             /\ IF p.ret # 0
                THEN /\ verdict' = "bad format"
                     /\ cret' = p.ret
                     /\ errno' = p.errno
                     /\ UNCHANGED <<cs8_2s, cs8_xor>>
                ELSE /\ verdict' = IF c.ret # 0 THEN "checksum failed" ELSE "printed"
                     /\ cret' = c.ret
                     /\ errno' = c.errno
                     /\ cs8_2s' = c.cs8_2s
                     /\ cs8_xor' = c.cs8_xor
  /\ UNCHANGED <<srcVars, rbuf, pc, op, len, buf, transferred, ret, entry,
                 fetches, req, failed, drained, delivered, calls, flushed_at, nulls, log, log_sz, util>>

Next ==
  \/ \E l \in ReadLens : osp3_read(l)
  \/ \E l \in LineLens : osp3_read_line(l)
  \/ osp3_read_line_loop
  \/ osp3_flush
  \/ osp3_poll_line

Spec == Init /\ [][Next]_vars

\* The reader used without osp3_flush.
NextRead ==
  \/ \E l \in ReadLens : osp3_read(l)
  \/ \E l \in LineLens : osp3_read_line(l)
  \/ osp3_read_line_loop
  \/ osp3_poll_line

SpecRead == Init /\ [][NextRead]_vars

\* ------------------------------------------------------------ codec calls

\* test_log_no_newline: the record without its trailing "\r\n".
test_log_no_newline == SubSeq(test_log1, 1, OSP3_LOG_PROTOCOL_SIZE - 2)

\* A string literal as the char array it initialises: its bytes and a NUL.
CharArray(s) == s \o <<NUL>>

\* test_log1 with one byte replaced.
Corrupted(i, c) == [test_log1 EXCEPT ![i] = c]

\* The bytes a corrupted record gets in place of one of its own: '1', ' '.
CorruptBytes == {49, 32}

\* The buffers handed to the codec: the test records, and test_log1 with
\* any one byte replaced.
CodecLogs ==
  {CharArray(l) : l \in {test_log1, test_log2, test_log3, test_log4,
                         test_log1_bad_2s, test_log1_bad_xor, test_log_no_newline}}
  \cup {CharArray(Corrupted(i, c)) : i \in 1..OSP3_LOG_PROTOCOL_SIZE, c \in CorruptBytes}

\* The log_sz a caller passes with a buffer: sizeof, or less.
CodecSizes(l) ==
  {Len(l), OSP3_LOG_PROTOCOL_SIZE, OSP3_LOG_PROTOCOL_SIZE - 1, OSP3_LOG_PROTOCOL_SIZE - 2,
   OSP3_LOG_PROTOCOL_SIZE - 3} \cap 0..Len(l)

\* The checksum values the tests hand to osp3_log_checksum_test.
TestChecksums == {<<20, 18>>, <<21, 18>>, <<20, 19>>, <<21, 19>>}

InitCodec ==
  /\ ReaderInit([stream |-> StreamShort, cuts |-> {Len(StreamShort)}])
  /\ log \in CodecLogs
  /\ log_sz \in CodecSizes(log)
  /\ cs8_2s = 0
  /\ cs8_xor = 0
  /\ log_entry = NoLogEntry
  /\ cret = 0
  /\ util = NoUtil

\* ret = osp3_log_checksum(log, log_sz, &cs8_2s, &cs8_xor)
log_checksum ==
  /\ \E c \in {osp3_log_checksum(log, log_sz, cs8_2s, cs8_xor)} :
       /\ cret' = c.ret
       /\ errno' = c.errno
       /\ cs8_2s' = c.cs8_2s
       /\ cs8_xor' = c.cs8_xor
  /\ op' = "log_checksum"
  /\ nulls' = {}
  /\ UNCHANGED <<srcVars, rbuf, pc, len, buf, transferred, ret, entry, fetches, req,
                 failed, drained, delivered, calls, flushed_at, verdict, log, log_sz, log_entry, util>>

\* ret = osp3_log_checksum_test(log, log_sz, a, x): cs8_2s and cs8_xor keep
\* the values given.
log_checksum_test(a, x) ==
  /\ \E c \in {osp3_log_checksum_test(log, log_sz, a, x)} :
       /\ cret' = c.ret
       /\ errno' = c.errno
  /\ cs8_2s' = a
  /\ cs8_xor' = x
  /\ op' = "log_checksum_test"
  /\ nulls' = {}
  /\ UNCHANGED <<srcVars, rbuf, pc, len, buf, transferred, ret, entry, fetches, req,
                 failed, drained, delivered, calls, flushed_at, verdict, log, log_sz, log_entry, util>>

\* ret = osp3_log_parse(log, log_sz, &log_entry)
log_parse ==
  /\ \E p \in {osp3_log_parse(log, log_sz, log_entry)} :
       /\ cret' = p.ret
       /\ errno' = p.errno
       /\ log_entry' = p.log_entry
  /\ op' = "log_parse"
  /\ nulls' = {}
  /\ UNCHANGED <<srcVars, rbuf, pc, len, buf, transferred, ret, entry, fetches, req,
                 failed, drained, delivered, calls, flushed_at, verdict, log, log_sz, cs8_2s, cs8_xor, util>>

NextCodec ==
  \/ log_checksum
  \/ \E t \in TestChecksums : log_checksum_test(t[1], t[2])
  \/ log_parse

SpecCodec == InitCodec /\ [][NextCodec]_vars

\* ------------------------------------------------------------ properties

\* A reader call (osp3_read or osp3_read_line) has returned.
Returned(o) == pc = "idle" /\ op = o

\* The call that returned last ended on a failed packet fetch.
FetchFailed == ret = -1 /\ errno \in {"ETIME", "EIO"}

\* The bytes of s up to and including its first '\n'; <<>> if it has none.
FirstLine(s) == SubSeq(s, 1, memchr1(s, LF, Len(s)))

\* The stream from offset n on (n bytes of it precede).
StreamFrom(n) == SubSeq(stream, n + 1, Len(stream))

\* C1: without osp3_flush, the bytes written to the callers' destinations,
\* followed by the unconsumed content of the lookahead buffer, are exactly the
\* bytes the packet source has returned so far, in order; and a call first
\* delivers the buffered bytes: all of them, unless the destination is full or
\* (osp3_read_line) the line ends before.
C1_NoByteLost ==
  /\ delivered \o Unread = SubSeq(stream, 1, pos)
  /\ op \in {"read", "read_line"} =>
       /\ drained <= Len(entry.unread)
       /\ Len(buf) >= drained
       /\ SubSeq(buf, 1, drained) = SubSeq(entry.unread, 1, drained)
       /\ drained < Len(entry.unread) =>
            \/ drained = len
            \/ op = "read_line" /\ buf[drained] = LF

\* C1's case: a packet carried bytes after a line's '\n', and the next call
\* delivered them first and went on to fetch more.
C1_Witness ==
  /\ Returned("read_line")
  /\ entry.op = "read_line"
  /\ entry.rem > 0
  /\ drained = entry.rem
  /\ fetches > 0
  /\ ret = 0

\* C2: when osp3_read_line returns 0, 1 <= *transferred <= len, the last byte
\* written is '\n' and no byte before it is.
C2_LineTerminated ==
  (Returned("read_line") /\ ret = 0) =>
    /\ transferred >= 1
    /\ transferred <= len
    /\ Len(buf) = transferred
    /\ buf[transferred] = LF
    /\ \A i \in 1..(transferred - 1) : buf[i] # LF

\* C2's case: a line put together from the lookahead buffer and two packets.
C2_Witness ==
  /\ Returned("read_line")
  /\ ret = 0
  /\ entry.rem > 0
  /\ fetches >= 2
  /\ transferred > OSP3_W_MAX_PACKET_SIZE

\* C3: from an empty lookahead buffer, with a destination at least as long as
\* the next line of the stream, osp3_read_line succeeds unless a fetch fails,
\* and writes that line, however the stream is cut into packets.
C3_SplitInvariance ==
  LET line == FirstLine(StreamFrom(entry.pos))
  IN (/\ Returned("read_line")
      /\ entry.rem = 0
      /\ line # <<>>
      /\ len >= Len(line)
      /\ ~FetchFailed)
     => /\ ret = 0
        /\ buf = line
        /\ transferred = Len(line)

\* C3's case: a log entry delivered in three packets, the last of which is
\* the terminator alone.
C3_Witness ==
  /\ Returned("read_line")
  /\ entry.rem = 0
  /\ ret = 0
  /\ fetches = 3
  /\ req = 1
  /\ transferred = OSP3_LOG_PROTOCOL_SIZE

\* C4: from an empty lookahead buffer and with no fetch failing,
\* osp3_read_line with len one less than the length of the incoming line
\* fails with ENOBUFS and with len equal to it succeeds; it fails with ENOBUFS
\* exactly when len bytes are written and none is '\n'; and no fetch is issued
\* for 0 bytes.
C4_ShortBuffer ==
  LET line == FirstLine(StreamFrom(entry.pos))
  IN /\ (Returned("read_line") /\ entry.rem = 0 /\ line # <<>> /\ ~FetchFailed) =>
          /\ len = Len(line) - 1 => (ret = -1 /\ errno = "ENOBUFS")
          /\ len = Len(line) => ret = 0
     /\ Returned("read_line") =>
          ((ret = -1 /\ errno = "ENOBUFS")
             <=> (transferred = len /\ \A i \in 1..Len(buf) : buf[i] # LF))
     /\ (op = "read_line" /\ fetches > 0) => req >= 1

\* C4's case: an 81-byte log entry read with len = 80.
C4_Witness ==
  /\ Returned("read_line")
  /\ entry.rem = 0
  /\ len = OSP3_LOG_PROTOCOL_SIZE - 1
  /\ Len(FirstLine(StreamFrom(entry.pos))) = OSP3_LOG_PROTOCOL_SIZE
  /\ transferred = len
  /\ ret = -1
  /\ errno = "ENOBUFS"

\* C5: osp3_read copies d = min(rem, len) buffered bytes first, issues one
\* fetch, for len - d bytes, exactly if d < len, and on success reports d plus
\* the bytes fetched, which follow the buffered ones in the destination.
C5_ReadOneFetch ==
  Returned("read") =>
    /\ drained = Min(entry.rem, len)
    /\ SubSeq(buf, 1, drained) = SubSeq(entry.unread, 1, drained)
    /\ fetches = (IF drained < len THEN 1 ELSE 0)
    /\ fetches = 1 => req = len - drained
    /\ ret = 0 =>
         /\ transferred = drained + (pos - entry.pos)
         /\ transferred <= len
         /\ buf = SubSeq(entry.unread, 1, drained) \o SubSeq(stream, entry.pos + 1, pos)

\* C5's case: buffered bytes, then a fetch that returns fewer bytes than asked.
C5_Witness ==
  /\ Returned("read")
  /\ ret = 0
  /\ drained > 0
  /\ pos > entry.pos
  /\ transferred < len

\* C6: a call in which a fetch fails returns -1 with no further fetch (no call
\* is still running after a failed fetch, and no call has more than one);
\* *transferred is the number of bytes moved before, and they are consumed:
\* the lookahead buffer has given them up and the stream is where it was.
C6_FetchFailure ==
  /\ failed <= 1
  /\ failed = 1 => (pc = "idle" /\ FetchFailed)
  /\ (op \in {"read", "read_line"} /\ pc = "idle" /\ FetchFailed) =>
       /\ failed = 1
       /\ transferred = Len(buf)
       /\ transferred = drained + (pos - entry.pos)
       /\ buf = SubSeq(entry.unread \o StreamFrom(entry.pos), 1, transferred)
       /\ rbuf.rem = entry.rem - drained
       /\ Unread = SubSeq(entry.unread, drained + 1, Len(entry.unread))

\* C6's case: osp3_read_line took bytes from the lookahead buffer, fetched a
\* packet and then timed out.
C6_Witness ==
  /\ Returned("read_line")
  /\ ret = -1
  /\ errno = "ETIME"
  /\ drained > 0
  /\ fetches = 2
  /\ transferred > drained

PollStep == verdict = "none" /\ verdict' # "none"

\* C7: what osp3_poll does with a line (osp3_log_parse, osp3_log_checksum,
\* osp3_log_checksum_test) leaves the lookahead buffer as it is, and whatever
\* it made of the line, the next successful osp3_read_line returns the line
\* of the stream that follows the bytes delivered so far.
C7_CodecFrame ==
  /\ [][PollStep => rbuf' = rbuf]_vars
  /\ [](  (Returned("read_line") /\ ret = 0 /\ entry.verdict # "none")
          => buf = FirstLine(StreamFrom(entry.delivered)))

\* C7's case: the line after one whose checksum failed, the two having
\* shared a packet.
C7_Witness ==
  /\ Returned("read_line")
  /\ ret = 0
  /\ entry.verdict = "checksum failed"
  /\ entry.rem > 0
  /\ transferred = OSP3_LOG_PROTOCOL_SIZE

\* C8: after osp3_flush, whatever tcflush returned, idx = 0 and rem = 0; the
\* call after it delivers only bytes fetched after the flush, and from then
\* on the lookahead buffer holds only bytes fetched after the flush.
C8_FlushEmpties ==
  /\ op = "flush" => (rbuf.idx = 0 /\ rbuf.rem = 0)
  /\ (op \in {"read", "read_line"} /\ entry.op = "flush") =>
       /\ drained = 0
       /\ buf = SubSeq(stream, entry.pos + 1, entry.pos + Len(buf))
  /\ rbuf.rem <= pos - flushed_at
  /\ Unread = SubSeq(stream, pos - rbuf.rem + 1, pos)

\* C8's case: a failed flush of a buffer that held bytes.
C8_Witness ==
  /\ op = "flush"
  /\ ret = -1
  /\ entry.rem > 0

\* C8, the buffer is usable after a flush: a line read after it left bytes
\* in the buffer again.
C8_WitnessUsable ==
  /\ Returned("read_line")
  /\ entry.op = "flush"
  /\ ret = 0
  /\ rbuf.rem > 0

\* ------------------------------------------------------------ checksum properties

\* The checksums by their definitions, not by the loop: the sum of the
\* first n bytes, its negation modulo 256, and the parity of each bit.
RECURSIVE SumBytes(_, _)
SumBytes(l, n) == IF n = 0 THEN 0 ELSE l[n] + SumBytes(l, n - 1)

Negated8(v) == (256 - (v % 256)) % 256

Pow2(k) == IF k = 0 THEN 1 ELSE IF k = 1 THEN 2 ELSE IF k = 2 THEN 4 ELSE IF k = 3 THEN 8
           ELSE IF k = 4 THEN 16 ELSE IF k = 5 THEN 32 ELSE IF k = 6 THEN 64 ELSE 128

BitOf(b, k) == (b \div Pow2(k)) % 2

RECURSIVE XorBytes(_, _, _)
XorBytes(l, n, k) ==
  IF k < 0 THEN 0
  ELSE Pow2(k) * (Cardinality({i \in 1..n : BitOf(l[i], k) = 1}) % 2) + XorBytes(l, n, k - 1)

Additive(l, n) == Negated8(SumBytes(l, n))
Xor(l, n) == XorBytes(l, n, 7)

\* The value of one hexadecimal digit, -1 for any other character.
HexDigit(c) ==
  IF c \in 48..57 THEN c - 48
  ELSE IF c \in 97..102 THEN c - 87
  ELSE IF c \in 65..70 THEN c - 55
  ELSE -1

\* The two characters at offset off are hexadecimal digits; their value.
IsHexField(l, off) == HexDigit(At(l, off)) >= 0 /\ HexDigit(At(l, off + 1)) >= 0
HexField(l, off) == 16 * HexDigit(At(l, off)) + HexDigit(At(l, off + 1))

\* A checksum call on an input of sufficient length whose two checksum
\* fields are hexadecimal digits.
ChecksumCall(o) ==
  /\ op = o
  /\ log_sz >= OSP3_LOG_PROTOCOL_SIZE
  /\ IsHexField(log, CS_2COMPL_OFF)
  /\ IsHexField(log, CS_XOR_OFF)

\* The computed checksums of log equal its two fields.
ComputedMatch ==
  /\ Additive(log, CS_2COMPL_OFF) = HexField(log, CS_2COMPL_OFF)
  /\ Xor(log, CS_2COMPL_OFF) = HexField(log, CS_XOR_OFF)

\* The checksums the caller holds equal the two fields of log.
GivenMatch ==
  /\ cs8_2s = HexField(log, CS_2COMPL_OFF)
  /\ cs8_xor = HexField(log, CS_XOR_OFF)

\* C9 as stated: both osp3_log_checksum and osp3_log_checksum_test return 0
\* exactly when the checksums computed from the covered bytes equal the two
\* fields, and 1 otherwise.
C9_TestRecomputes ==
  (ChecksumCall("log_checksum") \/ ChecksumCall("log_checksum_test")) =>
    cret = IF ComputedMatch THEN 0 ELSE 1

\* C9: on an input of sufficient length osp3_log_checksum returns 0 exactly
\* when the checksums computed from the covered bytes both equal the
\* hex-decoded fields and 1 otherwise, and leaves the computed pair in its
\* outputs either way; osp3_log_checksum_test returns 0 exactly when the two
\* values it is given both equal the fields and 1 otherwise, whatever the
\* covered bytes are; for test_log1 the computed pair is (0x14, 0x12).
C9_ChecksumMatch ==
  /\ ChecksumCall("log_checksum") =>
       /\ cret = IF ComputedMatch THEN 0 ELSE 1
       /\ cs8_2s = Additive(log, CS_2COMPL_OFF)
       /\ cs8_xor = Xor(log, CS_2COMPL_OFF)
  /\ ChecksumCall("log_checksum_test") =>
       cret = IF GivenMatch THEN 0 ELSE 1
  /\ (ChecksumCall("log_checksum") /\ log = CharArray(test_log1)) =>
       (cs8_2s = 20 /\ cs8_xor = 18 /\ cret = 0)

\* C9's case: osp3_log_checksum_test returned 1 for values that match the
\* fields in one checksum only, on a record whose own checksums are right.
C9_Witness ==
  /\ ChecksumCall("log_checksum_test")
  /\ ComputedMatch
  /\ cs8_2s = HexField(log, CS_2COMPL_OFF)
  /\ cs8_xor # HexField(log, CS_XOR_OFF)
  /\ cret = 1

\* C9, the other function: osp3_log_checksum returned 1 and stored the pair
\* it computed.
C9_WitnessStored ==
  /\ ChecksumCall("log_checksum")
  /\ cret = 1
  /\ cs8_2s = Additive(log, CS_2COMPL_OFF)
  /\ cs8_2s # HexField(log, CS_2COMPL_OFF)

\* C10 as stated: the checksums are those of the first 73 bytes.
C10_Covers73 ==
  (op = "log_checksum" /\ log_sz >= OSP3_LOG_PROTOCOL_SIZE) =>
    /\ cs8_2s = Additive(log, 73)
    /\ cs8_xor = Xor(log, 73)

\* C10: the checksums are those of the 74 bytes at offsets 0 to 73, the
\* last one being the comma before the additive checksum field, and of no
\* other byte.
C10_Covers74 ==
  (op = "log_checksum" /\ log_sz >= OSP3_LOG_PROTOCOL_SIZE) =>
    /\ cs8_2s = Additive(log, 74)
    /\ cs8_xor = Xor(log, 74)
    /\ At(log, 73) # At(test_log1, 73) =>
         (cs8_2s # Additive(test_log1, 74) /\ cs8_xor # Xor(test_log1, 74))

\* C10's case: a record that differs from test_log1 in the byte at offset
\* 73 only, and whose checksums differ from those of test_log1.
C10_Witness ==
  /\ op = "log_checksum"
  /\ log_sz >= OSP3_LOG_PROTOCOL_SIZE
  /\ At(log, 73) # COMMA
  /\ SubSeq(log, 1, 73) = SubSeq(test_log1, 1, 73)
  /\ cs8_2s # 20

\* C10, no other byte: a record that differs from test_log1 after offset 73
\* has the checksums of test_log1.
C10_WitnessTail ==
  /\ op = "log_checksum"
  /\ log_sz >= OSP3_LOG_PROTOCOL_SIZE
  /\ log # CharArray(test_log1)
  /\ SubSeq(log, 1, 74) = SubSeq(test_log1, 1, 74)
  /\ cs8_2s = 20
  /\ cs8_xor = 18

\* ------------------------------------------------------------ input length

\* A codec call has returned.
CodecCall == op \in {"log_parse", "log_checksum", "log_checksum_test"}

\* C11: the well-formed record without its "\r\n", passed with
\* log_sz = sizeof = OSP3_LOG_PROTOCOL_SIZE - 1, is accepted: osp3_log_parse
\* and osp3_log_checksum return 0, and so does osp3_log_checksum_test given
\* the record's checksums.
C11_NoNewlineAccepted ==
  (/\ log = CharArray(test_log_no_newline)
   /\ log_sz = OSP3_LOG_PROTOCOL_SIZE - 1
   /\ \/ op \in {"log_parse", "log_checksum"}
      \/ op = "log_checksum_test" /\ cs8_2s = 20 /\ cs8_xor = 18)
  => cret = 0

\* C12: with log_sz below OSP3_LOG_PROTOCOL_SIZE, 78 and 79 among them,
\* osp3_log_parse, osp3_log_checksum and osp3_log_checksum_test return -1
\* with errno EINVAL, never 0 or 1.
C12_TooShort ==
  (CodecCall /\ log_sz < OSP3_LOG_PROTOCOL_SIZE) => (cret = -1 /\ errno = "EINVAL")

\* C12's case: osp3_log_parse refused a well-formed record passed with
\* log_sz = 78 and left the entry as it was.
C12_Witness ==
  /\ op = "log_parse"
  /\ log = CharArray(test_log1)
  /\ log_sz = OSP3_LOG_PROTOCOL_SIZE - 3
  /\ cret = -1
  /\ log_entry = NoLogEntry

\* C12, the other sizes and functions: osp3_log_checksum_test refused
\* log_sz = 79.
C12_WitnessTest ==
  /\ op = "log_checksum_test"
  /\ log_sz = OSP3_LOG_PROTOCOL_SIZE - 2
  /\ cret = -1

\* ------------------------------------------------------------ parsing

\* The first 15 fields of test_log1 as values (ms as its two limbs).
test_log1_fields == << <<8, 15169>>, 15296, 36, 550, 0, 0, 0, 0, 0, 0, 0, 0, 0, 0, 0 >>

\* log is test_log1 with hexadecimal digits in its checksum fields, and
\* nothing else changed.
Test1WithChecksums ==
  /\ Len(log) = OSP3_LOG_PROTOCOL_SIZE + 1
  /\ \A i \in 1..Len(log) :
       (i - 1) \notin {CS_2COMPL_OFF, CS_2COMPL_OFF + 1, CS_XOR_OFF, CS_XOR_OFF + 1}
         => log[i] = CharArray(test_log1)[i]
  /\ IsHexField(log, CS_2COMPL_OFF)
  /\ IsHexField(log, CS_XOR_OFF)

\* One of the checksum fields of log is not that of test_log1.
ChecksumAltered ==
  \/ HexField(log, CS_2COMPL_OFF) # HexField(test_log1, CS_2COMPL_OFF)
  \/ HexField(log, CS_XOR_OFF) # HexField(test_log1, CS_XOR_OFF)

\* C13: for test_log1 with either checksum field replaced by other
\* hexadecimal digits, osp3_log_checksum returns 1 while osp3_log_parse
\* returns 0 and yields the 15 other fields of test_log1 and, as checksums,
\* the digits that are in the text.
C13_ParseIgnoresChecksums ==
  (Test1WithChecksums /\ log_sz >= OSP3_LOG_PROTOCOL_SIZE) =>
    /\ (op = "log_checksum" /\ ChecksumAltered) => cret = 1
    /\ op = "log_parse" =>
         /\ cret = 0
         /\ SubSeq(log_entry, 1, 15) = test_log1_fields
         /\ log_entry[16] = HexField(log, CS_2COMPL_OFF)
         /\ log_entry[17] = HexField(log, CS_XOR_OFF)

\* C13's case: a record with an altered XOR checksum was parsed, and
\* osp3_log_checksum then reported the mismatch.
C13_Witness ==
  /\ Test1WithChecksums
  /\ log_sz >= OSP3_LOG_PROTOCOL_SIZE
  /\ HexField(log, CS_XOR_OFF) # HexField(test_log1, CS_XOR_OFF)
  /\ op = "log_checksum"
  /\ cret = 1
  /\ SubSeq(log_entry, 1, 15) = test_log1_fields
  /\ log_entry[17] = HexField(log, CS_XOR_OFF)

\* The fixed layout: offset, width and radix of each of the 17 fields.
Layout ==
  << [off |-> MS_OFF, sz |-> MS_SZ, base |-> 10],
     [off |-> MV_IN_OFF, sz |-> MV_SZ, base |-> 10], [off |-> MA_IN_OFF, sz |-> MA_SZ, base |-> 10],
     [off |-> MW_IN_OFF, sz |-> MW_SZ, base |-> 10], [off |-> ONOFF_IN_OFF, sz |-> ONOFF_SZ, base |-> 10],
     [off |-> MV_0_OFF, sz |-> MV_SZ, base |-> 10], [off |-> MA_0_OFF, sz |-> MA_SZ, base |-> 10],
     [off |-> MW_0_OFF, sz |-> MW_SZ, base |-> 10], [off |-> ONOFF_0_OFF, sz |-> ONOFF_SZ, base |-> 10],
     [off |-> INTR_0_OFF, sz |-> INTR_SZ, base |-> 16],
     [off |-> MV_1_OFF, sz |-> MV_SZ, base |-> 10], [off |-> MA_1_OFF, sz |-> MA_SZ, base |-> 10],
     [off |-> MW_1_OFF, sz |-> MW_SZ, base |-> 10], [off |-> ONOFF_1_OFF, sz |-> ONOFF_SZ, base |-> 10],
     [off |-> INTR_1_OFF, sz |-> INTR_SZ, base |-> 16],
     [off |-> CS_2COMPL_OFF, sz |-> CS_2COMPL_SZ, base |-> 16],
     [off |-> CS_XOR_OFF, sz |-> CS_XOR_SZ, base |-> 16] >>

\* c is a digit of the radix.
IsDigitOf(c, base) == IF base = 10 THEN c \in 48..57 ELSE HexDigit(c) >= 0

\* The first 79 bytes of l are the 17 fields, each of its width in digits of
\* its radix, with one comma after each but the last.
FixedLayout(l) ==
  \A k \in 1..Len(Layout) :
    /\ \A j \in 0..(Layout[k].sz - 1) : IsDigitOf(At(l, Layout[k].off + j), Layout[k].base)
    /\ k < Len(Layout) => At(l, Layout[k].off + Layout[k].sz) = COMMA

\* C14: osp3_log_parse returns 0 only for a buffer whose first 79 bytes have
\* the fixed layout; any other input of sufficient length gets a non-zero
\* result.
C14_StrictLayout ==
  (op = "log_parse" /\ log_sz >= OSP3_LOG_PROTOCOL_SIZE /\ cret = 0) => FixedLayout(log)

\* The length of the record without its "\r\n".
PayloadLen == CS_XOR_OFF + CS_XOR_SZ

\* C15: a buffer of sufficient length that agrees with test_log1 on its first
\* 79 bytes gets what test_log1 gets, whatever follows them: osp3_log_parse
\* returns 0 with the 17 fields of test_log1, osp3_log_checksum returns 0
\* with the checksums of test_log1, and osp3_log_checksum_test returns 0
\* exactly for those checksums.
C15_TrailingIgnored ==
  (SubSeq(log, 1, PayloadLen) = SubSeq(test_log1, 1, PayloadLen)
     /\ log_sz >= OSP3_LOG_PROTOCOL_SIZE) =>
    /\ op = "log_parse" => (cret = 0 /\ log_entry = test_log1_fields \o <<20, 18>>)
    /\ op = "log_checksum" => (cret = 0 /\ cs8_2s = 20 /\ cs8_xor = 18)
    /\ op = "log_checksum_test" => (cret = IF cs8_2s = 20 /\ cs8_xor = 18 THEN 0 ELSE 1)

\* ------------------------------------------------------------ rendering

\* The character of a digit: '0'..'9', 'a'..'f'.
DigitChar(d) == IF d < 10 THEN 48 + d ELSE 87 + d

\* v as w digits of the radix, zero-padded.
RECURSIVE Digits(_, _, _)
Digits(v, w, base) ==
  IF w = 0 THEN <<>> ELSE Append(Digits(v \div base, w - 1, base), DigitChar(v % base))

\* A field of the layout rendered: the timestamp (field 1) from its two
\* limbs, any other from its number.
RenderField(k, v) ==
  IF k = 1
  THEN Digits(v[1], Layout[k].sz - LIMB, 10) \o Digits(v[2], LIMB, 10)
  ELSE Digits(v, Layout[k].sz, Layout[k].base)

\* The first k fields of a record in the fixed layout, commas between them.
RECURSIVE RenderFields(_, _)
RenderFields(r, k) ==
  IF k = 0 THEN <<>>
  ELSE RenderFields(r, k - 1) \o (IF k > 1 THEN <<COMMA>> ELSE <<>>) \o RenderField(k, r[k])

\* A record as the line the device sends for it.
Render(r) == RenderFields(r, Len(Layout)) \o <<CR, LF>>

\* Timestamps: 0, that of test_log1, the largest a 32-bit unsigned long
\* holds, and the largest that 10 digits hold (in an unsigned long of 64 bits).
RecordTimes == { <<0, 0>>, <<8, 15169>>, <<42949, 67295>>, <<99999, 99999>> }

\* The 16 fields after the timestamp: those of test_log1, the smallest, the
\* largest that fit the layout, and a mix with hexadecimal letters.
RecordRests ==
  { <<15296, 36, 550, 0, 0, 0, 0, 0, 0, 0, 0, 0, 0, 0, 20, 18>>,
    <<0, 0, 0, 0, 0, 0, 0, 0, 0, 0, 0, 0, 0, 0, 0, 0>>,
    <<99999, 9999, 99999, 1, 99999, 9999, 99999, 1, 255, 99999, 9999, 99999, 1, 255, 255, 255>>,
    <<5003, 1200, 6003, 1, 4987, 1000, 4987, 1, 10, 3300, 7, 23, 0, 171, 28, 205>> }

\* The records rendered: values of osp3_log_entry whose fields fit the layout.
Records == {<<t>> \o f : t \in RecordTimes, f \in RecordRests}

InitRender ==
  /\ ReaderInit([stream |-> StreamShort, cuts |-> {Len(StreamShort)}])
  /\ log \in {CharArray(Render(r)) : r \in Records}
  /\ log_sz \in {Len(log), OSP3_LOG_PROTOCOL_SIZE}
  /\ cs8_2s = 0
  /\ cs8_xor = 0
  /\ log_entry = NoLogEntry
  /\ cret = 0
  /\ util = NoUtil

SpecRender == InitRender /\ [][NextCodec]_vars

NULL == 0

\* The pointer parameters the library's functions require.
Pointers(f) ==
  CASE f = "open_device" -> {"path"}
    [] f \in {"close", "flush"} -> {"dev"}
    [] f \in {"read", "read_line"} -> {"dev", "buf", "transferred"}
    [] f = "log_checksum" -> {"log", "cs8_2s", "cs8_xor"}
    [] f = "log_checksum_test" -> {"log"}
    [] f = "log_parse" -> {"log", "log_entry"}

\* The ways of passing NULL for at least one of them.
NullArgs(f) == (SUBSET Pointers(f)) \ {{}}

\* A call that dereferences a null pointer, or hands one to memcpy, memccpy,
\* sscanf or read(2), has undefined behaviour: the process is killed by a
\* signal, or the call returns some value, with errno as it was or set (read(2)
\* sets EFAULT).  r0 and e0 are the last return value and errno.
Undefined(r0, e0) ==
  {[pc |-> "signal", ret |-> r0, errno |-> e0]}
    \cup {[pc |-> "idle", ret |-> r, errno |-> e] : r \in {-1, 0}, e \in {e0, "EINVAL", "EFAULT"}}

\* A call of f on the device API with a pointer NULL, with one of the given
\* outcomes.
DeviceCall(f, outcomes) ==
  /\ pc = "idle"
  /\ calls < MaxCalls
  /\ \E o \in outcomes :
       /\ pc' = o.pc
       /\ ret' = o.ret
       /\ errno' = o.errno
  /\ op' = f
  /\ calls' = calls + 1
  /\ UNCHANGED <<srcVars, rbuf, len, buf, transferred, entry, fetches, req, failed,
                 drained, delivered, flushed_at, verdict, codecVars, util>>

\* osp3_open_device(NULL, baud): the path is checked.
osp3_open_device_null ==
  /\ nulls' = {"path"}
  /\ DeviceCall("open_device", {[pc |-> "idle", ret |-> NULL, errno |-> "EINVAL"]})

\* osp3_close(NULL): close(dev->fd).
osp3_close_null ==
  /\ nulls' = {"dev"}
  /\ DeviceCall("close", Undefined(ret, errno))

\* osp3_flush(NULL): dev->rbuf.idx = 0.
osp3_flush_null ==
  /\ nulls' = {"dev"}
  /\ DeviceCall("flush", Undefined(ret, errno))

\* osp3_read with the pointers in N NULL: *transferred = sz_min(dev->rbuf.rem, len),
\* memcpy(buf, ...).
osp3_read_null(N) ==
  /\ nulls' = N
  /\ DeviceCall("read", Undefined(ret, errno))

\* osp3_read_line with the pointers in N NULL: memccpy(buf, &dev->rbuf.buf[...]),
\* *transferred = line_seg_written.
osp3_read_line_null(N) ==
  /\ nulls' = N
  /\ DeviceCall("read_line", Undefined(ret, errno))

\* The log_sz passed with a NULL pointer: sizeof(test_log1), and the tests' bad
\* size.
NullSizes == {OSP3_LOG_PROTOCOL_SIZE + 1, OSP3_LOG_PROTOCOL_SIZE - 2}

\* A call of the codec function f with the pointers in N NULL and log_sz sz:
\* the size is checked, then the pointers are used.
CodecNullCall(f, N, sz) ==
  /\ pc = "idle"
  /\ calls < MaxCalls
  /\ \E o \in IF sz < OSP3_LOG_PROTOCOL_SIZE
              THEN {[pc |-> "idle", ret |-> -1, errno |-> "EINVAL"]}
              ELSE Undefined(cret, errno) :
       /\ pc' = o.pc
       /\ cret' = o.ret
       /\ errno' = o.errno
  /\ op' = f
  /\ calls' = calls + 1
  /\ log' = IF "log" \in N THEN <<>> ELSE CharArray(test_log1)
  /\ log_sz' = sz
  /\ UNCHANGED <<srcVars, rbuf, len, buf, transferred, ret, entry, fetches, req, failed,
                 drained, delivered, flushed_at, verdict, cs8_2s, cs8_xor, log_entry, util>>

\* osp3_log_checksum with the pointers in N NULL: osp3_log_checksum_compute
\* reads log, *cs8_2s and *cs8_xor are written.
osp3_log_checksum_null(N, sz) ==
  /\ nulls' = N
  /\ CodecNullCall("log_checksum", N, sz)

\* osp3_log_checksum_test(NULL, sz, ...): osp3_log_checksum_compute reads log.
osp3_log_checksum_test_null(sz) ==
  /\ nulls' = {"log"}
  /\ CodecNullCall("log_checksum_test", {"log"}, sz)

\* osp3_log_parse with the pointers in N NULL: sscanf reads log and writes
\* the fields of *log_entry.
osp3_log_parse_null(N, sz) ==
  /\ nulls' = N
  /\ CodecNullCall("log_parse", N, sz)

NextNull ==
  \/ osp3_open_device_null
  \/ osp3_close_null
  \/ osp3_flush_null
  \/ \E N \in NullArgs("read") : osp3_read_null(N)
  \/ \E N \in NullArgs("read_line") : osp3_read_line_null(N)
  \/ \E N \in NullArgs("log_checksum"), sz \in NullSizes : osp3_log_checksum_null(N, sz)
  \/ \E sz \in NullSizes : osp3_log_checksum_test_null(sz)
  \/ \E N \in NullArgs("log_parse"), sz \in NullSizes : osp3_log_parse_null(N, sz)

\* A device just opened, and no codec call made yet.
InitNull ==
  /\ ReaderInit([stream |-> StreamShort, cuts |-> {Len(StreamShort)}])
  /\ log = <<>>
  /\ log_sz = 0
  /\ cs8_2s = 0
  /\ cs8_xor = 0
  /\ log_entry = NoLogEntry
  /\ cret = 0
  /\ util = NoUtil

\* Calls with NULL arguments.
SpecNull == InitNull /\ [][NextNull]_vars

\* C17: a call of a public function with a required pointer NULL returns
\* (the process goes on), with -1 (NULL from osp3_open_device) and errno
\* EINVAL, and the device's lookahead buffer and the stream are as they were.
C17_NullFailsCleanly ==
  nulls # {} =>
    /\ pc = "idle"
    /\ errno = "EINVAL"
    /\ IF op = "open_device" THEN ret = NULL
       ELSE IF CodecCall THEN cret = -1
       ELSE ret = -1
    /\ rbuf.idx = 0 /\ rbuf.rem = 0 /\ pos = 0

\* C18: an osp3_read_line call issues at most len packet fetches, each fetch
\* that did not fail brought the call at least one byte closer to completion,
\* and the call ends with success, ENOBUFS, a timeout or a transport error.
C18_BoundedFetches ==
  (op = "read_line" /\ nulls = {}) =>
    /\ fetches <= len
    /\ fetches - failed <= transferred - drained
    /\ Returned("read_line") => (ret = 0 \/ (ret = -1 /\ errno \in {"ENOBUFS", "ETIME", "EIO"}))

\* C19: in every state that osp3_read, osp3_read_line and osp3_flush calls
\* reach from a device just opened, 0 <= rem <= 64, 0 <= idx, idx + rem <= 64,
\* and idx = 0 whenever rem = 0: the unconsumed bytes lie inside rbuf.buf.
C19_LookaheadInvariant ==
  /\ 0 <= rbuf.rem /\ rbuf.rem <= OSP3_W_MAX_PACKET_SIZE
  /\ 0 <= rbuf.idx /\ rbuf.idx + rbuf.rem <= OSP3_W_MAX_PACKET_SIZE
  /\ rbuf.rem = 0 => rbuf.idx = 0

\* A call left unconsumed bytes in the middle of the buffer.
C19_Witness == pc = "idle" /\ nulls = {} /\ rbuf.idx > 0 /\ rbuf.rem > 0

\* A call that found the unconsumed bytes in the middle of the buffer took
\* the last of them.
C19_WitnessNormalised ==
  /\ pc = "idle" /\ op \in {"read", "read_line"} /\ nulls = {}
  /\ entry.idx > 0 /\ entry.rem > 0 /\ rbuf.rem = 0 /\ rbuf.idx = 0

\* osp3_read_line's loop fetched a packet in this step.
PacketFetched == pc = "read_line_loop" /\ fetches' = fetches + 1 /\ failed' = failed

\* C20: no assert of osp3_read or osp3_read_line fails; a packet is fetched
\* into the lookahead buffer only when idx = 0 and nothing unconsumed is left
\* in it; and a fetched packet leaves rem > 0 only if it completed the line,
\* so a call still looking for '\n' has stored nothing in the buffer.
C20_Step ==
  /\ pc' # "abort"
  /\ PacketFetched =>
       /\ rbuf.idx = 0 /\ rbuf.rem = 0
       /\ rbuf'.idx = 0
       /\ rbuf'.rem > 0 => (pc' = "idle" /\ ret' = 0 /\ buf'[Len(buf')] = LF)
  /\ pc' = "read_line_loop" => (rbuf'.rem = 0 \/ fetches' = 0)

C20_RefillOnlyWhenEmpty == [][C20_Step]_vars

\* A fetched packet completed the line and its tail went to the buffer.
C20_Witness ==
  /\ Returned("read_line") /\ nulls = {} /\ ret = 0
  /\ fetches > 1 /\ failed = 0 /\ rbuf.rem > 0 /\ rbuf.idx = 0
  /\ Unread = SubSeq(stream, pos - rbuf.rem + 1, pos)

\* ------------------------------------------------------------ utilities

\* Three log entries, as the device sends them.
StreamLogs == test_log1 \o test_log2 \o test_log3

\* The device streams the utilities read.
UtilSources ==
  {[stream |-> StreamLogs, cuts |-> Every(StreamLogs, OSP3_W_MAX_PACKET_SIZE)],
   [stream |-> StreamBadCs, cuts |-> Every(StreamBadCs, OSP3_W_MAX_PACKET_SIZE)]}

\* A utility about to enter its loop (osp3_dump, osp3_poll), the handler
\* installed: running is 1, or the count given with -n.
UtilStart(mode, running, count) ==
  [mode |-> mode, running |-> running, count |-> count, pc |-> "while", tmp |-> 0,
   ncall |-> 0, ret |-> 0, sigs |-> 0, sig_pc |-> "none", sig_calls |-> 0]

Utils ==
  {UtilStart("dump", 1, 0), UtilStart("poll", 1, 0)}
    \cup {UtilStart("poll", n, 1) : n \in 1..MaxCount}

InitUtil ==
  /\ \E src \in UtilSources : ReaderInit(src)
  /\ log = <<>>
  /\ log_sz = 0
  /\ cs8_2s = 0
  /\ cs8_xor = 0
  /\ log_entry = NoLogEntry
  /\ cret = 0
  /\ util \in Utils

\* The variables of the library.
libVars == <<srcVars, rbuf, pc, callVars, verdict, codecVars>>

\* The library call of the current iteration has been entered.
CallEntered == calls > util.ncall

\* shandle(SIGINT), between any two steps of the utility: running = 0.  The
\* first delivery's place in the loop is recorded.
shandle ==
  /\ util.pc # "exit"
  /\ util.sigs < MaxSignals
  /\ util' = [util EXCEPT
       !.running = 0,
       !.sigs = @ + 1,
       !.sig_pc = IF util.sigs > 0 THEN @
                  ELSE IF util.pc = "call" /\ CallEntered THEN "in call"
                  ELSE util.pc,
       !.sig_calls = IF util.sigs > 0 THEN @ ELSE calls]
  /\ UNCHANGED libVars

\* while (running)
while_running ==
  /\ util.pc = "while"
  /\ util' = IF util.running # 0
             THEN [util EXCEPT !.pc = "call", !.ncall = calls]
             ELSE [util EXCEPT !.pc = "exit", !.ret = 0]
  /\ UNCHANGED libVars

\* osp3_dump: osp3_read(dev, packet, sizeof(packet), &transferred, timeout_ms)
dump_read ==
  /\ util.mode = "dump"
  /\ util.pc = "call"
  /\ ~CallEntered
  /\ osp3_read(OSP3_W_MAX_PACKET_SIZE)

\* osp3_poll: read_line(dev, line, sizeof(line) - 1, &line_written), up to
\* osp3_read_line's loop.
poll_read_line ==
  /\ util.mode = "poll"
  /\ util.pc = "call"
  /\ ~CallEntered
  /\ osp3_read_line(OSP3_LINE_LEN_MAX)

\* The call returned: if (... < 0), else the loop body.
call_returned ==
  /\ util.pc = "call"
  /\ CallEntered
  /\ pc = "idle"
  /\ util' = [util EXCEPT !.pc = IF ret < 0 THEN "failed"
                                 ELSE IF util.mode = "dump" THEN "while"
                                 ELSE "line"]
  /\ UNCHANGED libVars

\* osp3_poll: the line is parsed, checked and printed.
poll_line ==
  /\ util.pc = "line"
  /\ osp3_poll_line

\* osp3_poll: if (count) after a line was printed.
poll_count ==
  /\ util.pc = "line"
  /\ verdict # "none"
  /\ util' = [util EXCEPT !.pc = IF verdict = "printed" /\ util.count # 0 THEN "running--"
                                 ELSE "while"]
  /\ UNCHANGED libVars

\* running--, the read of the volatile int ...
running_load ==
  /\ util.pc = "running--"
  /\ util' = [util EXCEPT !.tmp = util.running, !.pc = "running="]
  /\ UNCHANGED libVars

\* ... and its write.
running_store(u) == [u EXCEPT !.running = u.tmp - 1, !.pc = "while"]

running_write ==
  /\ util.pc = "running="
  /\ util' = running_store(util)
  /\ UNCHANGED libVars

\* if (!running) return 0;
if_not_running ==
  /\ util.pc = "failed"
  /\ util' = IF util.running = 0
             THEN [util EXCEPT !.pc = "exit", !.ret = 0]
             ELSE [util EXCEPT !.pc = "error"]
  /\ UNCHANGED libVars

\* fprintf(stderr, ...); return 1;
return_1 ==
  /\ util.pc = "error"
  /\ util' = [util EXCEPT !.pc = "exit", !.ret = 1]
  /\ UNCHANGED libVars

NextUtil ==
  \/ shandle
  \/ while_running
  \/ dump_read
  \/ poll_read_line
  \/ osp3_read_line_loop
  \/ call_returned
  \/ poll_line
  \/ poll_count
  \/ running_load
  \/ running_write
  \/ if_not_running
  \/ return_1

\* osp3-dump and osp3-poll (with and without -n) on a device, and a signal.
SpecUtil == InitUtil /\ [][NextUtil]_vars

\* A signal was delivered, not after the loop had taken the path to return 1.
Cancelled == util.sigs > 0 /\ util.sig_pc # "error"

\* Library calls entered after the first signal that were not committed to
\* (while (running) passed, call not yet entered) when it was delivered.
CallsAfterSignal == calls - util.sig_calls - (IF util.sig_pc = "call" THEN 1 ELSE 0)

\* C21: once shandle has set running to 0, the utility enters no further
\* osp3_read / osp3_read_line call (the one in progress, or already decided
\* on, completes), and its loop exits returning 0; wherever the signal is
\* delivered, with or without -n.
C21_Cancellation ==
  Cancelled =>
    /\ CallsAfterSignal <= 0
    /\ util.pc = "exit" => util.ret = 0

\* The same without -n: running is written by the handler only.
C21_CancellationNoCount ==
  (Cancelled /\ util.count = 0) =>
    /\ CallsAfterSignal <= 0
    /\ util.pc = "exit" => util.ret = 0

\* A signal during a call that then failed: the loop returned 0.
C21_WitnessNoCount ==
  /\ util.count = 0 /\ util.sig_pc = "in call" /\ util.pc = "exit" /\ ret = -1 /\ util.ret = 0

====
